---- MODULE Spec2Model ----
(***************************************************************************)
(* porquinho: the entry-line parser and serializer (src/src/parser.rs,     *)
(* src/src/writer.rs), the monthly store (src/src/bookkeeper/mod.rs) and   *)
(* the status aggregation (src/src/bookkeeper/status.rs).                  *)
(*                                                                         *)
(* Text is a sequence of characters, each character a one-element string.  *)
(* "U+00E9" stands for one character whose UTF-8 encoding is two bytes.    *)
(***************************************************************************)
EXTENDS Integers, Sequences, FiniteSets, TLC

VARIABLES
    debug,        \* the build keeps debug_assert! (debug profile) or drops it
    entry,        \* the Entry handed to the serializer (HasEntry: there is one)
    input,        \* the line handed to Entry::from_str
    pc,           \* position inside Entry::from_str / the serializer
    restDay,      \* the remainder parse_day hands to parse_entry_type
    restType,     \* the remainder parse_entry_type hands to parse_decimal
    restDec,      \* the remainder parse_decimal hands to parse_description
    day,          \* Entry.day once parsed
    typ,          \* Entry.typ once parsed
    amount,       \* Entry.amount once parsed
    description,  \* Entry.description once parsed
    err,          \* the ParseError returned, or the panic raised
    file,         \* the month file: whether it exists, and its content
    phase,        \* the invocation: idle (none running), loaded, failed
    bk,           \* the invocation's Bookkeeper
    outcome,      \* how the last invocation's load ended, and its exit
    loads,        \* load_from_path calls so far
    adds,         \* add_operation calls so far
    last,         \* history: the lists before the last append, and its line
    disk,         \* the month file as bytes, shared by concurrent invocations
    inv,          \* each concurrent invocation: its position and Bookkeeper
    history       \* the writes and truncations done on disk, in order

parserVars == <<debug, entry, input, pc, restDay, restType, restDec, day, typ, amount, description, err>>

storeVars == <<file, phase, bk, outcome, loads, adds, last>>

raceVars == <<disk, inv, history>>

vars == <<parserVars, storeVars, raceVars>>

(***************************************************************************)
(* Bounds of the enumerated inputs.                                        *)
(***************************************************************************)
MaxHead == 3     \* length of the enumerated line beginnings
MaxBody == 4     \* length of the enumerated text after the type symbol
MaxDesc == 3     \* length of the enumerated descriptions
MaxScale == 2    \* scale of the enumerated amounts
MaxLines == 2    \* lines in each list of an initial document
MaxLoads == 2    \* invocations in one behaviour
MaxAdds == 2     \* appends in one behaviour

(***************************************************************************)
(* Characters and the std string functions the parser calls.               *)
(***************************************************************************)
WideChar == "U+00E9"

Digits == {"0", "1", "2", "3", "4", "5", "6", "7", "8", "9"}

DigitVal(c) ==
    CASE c = "0" -> 0 [] c = "1" -> 1 [] c = "2" -> 2 [] c = "3" -> 3
      [] c = "4" -> 4 [] c = "5" -> 5 [] c = "6" -> 6 [] c = "7" -> 7
      [] c = "8" -> 8 [] c = "9" -> 9

DigitChar(n) ==
    CASE n = 0 -> "0" [] n = 1 -> "1" [] n = 2 -> "2" [] n = 3 -> "3"
      [] n = 4 -> "4" [] n = 5 -> "5" [] n = 6 -> "6" [] n = 7 -> "7"
      [] n = 8 -> "8" [] n = 9 -> "9"

\* char::is_whitespace, as str::trim uses it
IsWhitespace(c) == c \in {" ", "\t", "\n"}

\* the UTF-8 length of a character
ByteLen(c) == IF c = WideChar THEN 2 ELSE 1

RECURSIVE trim_start(_)
trim_start(s) ==
    IF s # <<>> /\ IsWhitespace(Head(s)) THEN trim_start(Tail(s)) ELSE s

RECURSIVE trim_end(_)
trim_end(s) ==
    IF s # <<>> /\ IsWhitespace(s[Len(s)])
    THEN trim_end(SubSeq(s, 1, Len(s) - 1))
    ELSE s

trim(s) == trim_end(trim_start(s))

\* str::split_once(' '): the text before and after the first occurrence of c
split_once(s, c) ==
    IF \E i \in 1..Len(s) : s[i] = c
    THEN LET i == CHOOSE k \in 1..Len(s) :
                      s[k] = c /\ \A j \in 1..(k - 1) : s[j] # c
         IN  [found |-> TRUE, first |-> SubSeq(s, 1, i - 1),
              rest |-> SubSeq(s, i + 1, Len(s))]
    ELSE [found |-> FALSE, first |-> <<>>, rest |-> <<>>]

RECURSIVE DigitsValue(_)
DigitsValue(s) ==
    IF s = <<>> THEN 0
    ELSE 10 * DigitsValue(SubSeq(s, 1, Len(s) - 1)) + DigitVal(s[Len(s)])

AllDigits(s) == \A i \in 1..Len(s) : s[i] \in Digits

RECURSIVE NatToStr(_)
NatToStr(n) ==
    IF n < 10 THEN <<DigitChar(n)>>
    ELSE NatToStr(n \div 10) \o <<DigitChar(n % 10)>>

RECURSIVE Pow10(_)
Pow10(n) == IF n = 0 THEN 1 ELSE 10 * Pow10(n - 1)

RECURSIVE Zeros(_)
Zeros(n) == IF n = 0 THEN <<>> ELSE <<"0">> \o Zeros(n - 1)

(***************************************************************************)
(* u8: str::parse::<u8>() and its Display.                                 *)
(***************************************************************************)
U8Max == 255

\* <u8 as FromStr>::from_str: an optional '+', then one or more digits,
\* the value at most u8::MAX
parse_u8(s) ==
    LET digits == IF s # <<>> /\ Head(s) = "+" THEN Tail(s) ELSE s
    IN  IF digits # <<>> /\ AllDigits(digits) /\ DigitsValue(digits) <= U8Max
        THEN [ok |-> TRUE, value |-> DigitsValue(digits)]
        ELSE [ok |-> FALSE, value |-> 0]

(***************************************************************************)
(* BigDecimal: an unscaled integer and a scale (value = unscaled/10^scale),*)
(* its FromStr, its Display, its equality and its sum.                     *)
(***************************************************************************)
Dec(u, sc) == [unscaled |-> u, scale |-> sc]

\* BigDecimal::from_str: an optional sign, digits with at most one '.',
\* at least one digit in all; the digits after the '.' give the scale
BigDecimal_from_str(s) ==
    LET signed == s # <<>> /\ Head(s) \in {"+", "-"}
        neg    == s # <<>> /\ Head(s) = "-"
        body   == IF signed THEN Tail(s) ELSE s
        sp     == split_once(body, ".")
        lead   == IF sp.found THEN sp.first ELSE body
        trail  == IF sp.found THEN sp.rest ELSE <<>>
        digits == lead \o trail
    IN  IF digits # <<>> /\ AllDigits(digits)
        THEN [ok |-> TRUE,
              value |-> Dec((IF neg THEN -1 ELSE 1) * DigitsValue(digits),
                            Len(trail))]
        ELSE [ok |-> FALSE, value |-> Dec(0, 0)]

\* <BigDecimal as Display>::fmt with no precision: the sign, the digits
\* before the point, and the point and the digits after it when scale > 0
BigDecimal_to_string(d) ==
    LET abs_int == NatToStr(IF d.unscaled < 0 THEN -d.unscaled ELSE d.unscaled)
        before  == IF d.scale >= Len(abs_int) THEN <<"0">>
                   ELSE SubSeq(abs_int, 1, Len(abs_int) - d.scale)
        after   == IF d.scale >= Len(abs_int)
                   THEN Zeros(d.scale - Len(abs_int)) \o abs_int
                   ELSE SubSeq(abs_int, Len(abs_int) - d.scale + 1, Len(abs_int))
        unsigned == IF after # <<>> THEN before \o <<".">> \o after ELSE before
    IN  IF d.unscaled < 0 THEN <<"-">> \o unsigned ELSE unsigned

\* <BigDecimal as PartialEq>::eq compares the values, not the scales
DecEq(a, b) == a.unscaled * Pow10(b.scale) = b.unscaled * Pow10(a.scale)

\* <BigDecimal as Add>::add: exact, at the larger scale
DecAdd(a, b) ==
    LET sc == IF a.scale >= b.scale THEN a.scale ELSE b.scale
    IN  Dec(a.unscaled * Pow10(sc - a.scale) + b.unscaled * Pow10(sc - b.scale), sc)

(***************************************************************************)
(* parser.rs: ParseError, EntryType and the four parsing steps.            *)
(***************************************************************************)
NoError == [kind |-> "None", text |-> <<>>]

ParseError(kind, text) == [kind |-> kind, text |-> text]

\* a failed debug_assert! or a str::split_at off a character boundary
Panic == [kind |-> "Panic", text |-> <<>>]

NoType == "None"

\* faulty variant: InvalidDay carries the whole line, not the day token
parse_day_whole_line(in) ==
    LET sp  == split_once(trim(in), " ")
        num == parse_u8(sp.first)
    IN  IF ~sp.found
        THEN [ok |-> FALSE, day |-> 0, rest |-> <<>>,
              err |-> ParseError("Malformed", in)]
        ELSE IF ~num.ok
        THEN [ok |-> FALSE, day |-> 0, rest |-> <<>>,
              err |-> ParseError("InvalidDay", in)]
        ELSE [ok |-> TRUE, day |-> num.value, rest |-> sp.rest, err |-> NoError]

parse_day(in) ==
    LET sp  == split_once(trim(in), " ")
        num == parse_u8(sp.first)
    IN  IF ~sp.found
        THEN [ok |-> FALSE, day |-> 0, rest |-> <<>>,
              err |-> ParseError("Malformed", in)]
        ELSE IF ~num.ok
        THEN [ok |-> FALSE, day |-> 0, rest |-> <<>>,
              err |-> ParseError("InvalidDay", sp.first)]
        ELSE [ok |-> TRUE, day |-> num.value, rest |-> sp.rest, err |-> NoError]

\* whether parse_entry_type's two debug_assert!s hold of its input
entry_type_precondition(in) == in = trim_start(in) /\ in # <<>>

\* dbg: the build keeps the debug_assert!s
parse_entry_type(in, dbg) ==
    IF dbg /\ ~entry_type_precondition(in)
    THEN [ok |-> FALSE, typ |-> NoType, rest |-> <<>>, err |-> Panic]
    ELSE IF in = <<>> \/ ByteLen(Head(in)) # 1
    THEN \* split_at(1): the index is past the end or inside a character
         [ok |-> FALSE, typ |-> NoType, rest |-> <<>>, err |-> Panic]
    ELSE LET first == Head(in)
         IN  CASE first = "+" ->
                    [ok |-> TRUE, typ |-> "Credit", rest |-> Tail(in), err |-> NoError]
               [] first = "-" ->
                    [ok |-> TRUE, typ |-> "Debit", rest |-> Tail(in), err |-> NoError]
               [] OTHER ->
                    [ok |-> FALSE, typ |-> NoType, rest |-> <<>>,
                     err |-> ParseError("InvalidEntryType", <<first>>)]

\* faulty variant: the amount token checked before the description
parse_decimal_token_first(in) ==
    LET trimmed == trim_start(in)
        sp      == split_once(trimmed, " ")
        token   == IF sp.found THEN sp.first ELSE trimmed
        dec     == BigDecimal_from_str(token)
    IN  IF ~dec.ok
        THEN [ok |-> FALSE, amount |-> Dec(0, 0), rest |-> <<>>,
              err |-> ParseError("InvalidDecimal", token)]
        ELSE IF ~sp.found \/ trim(sp.rest) = <<>>
        THEN [ok |-> FALSE, amount |-> Dec(0, 0), rest |-> <<>>,
              err |-> ParseError("NoDescription", trimmed)]
        ELSE [ok |-> TRUE, amount |-> dec.value, rest |-> sp.rest, err |-> NoError]

parse_decimal(in) ==
    LET trimmed == trim_start(in)
        sp      == split_once(trimmed, " ")
        dec     == BigDecimal_from_str(sp.first)
    IN  IF ~sp.found \/ trim(sp.rest) = <<>>
        THEN [ok |-> FALSE, amount |-> Dec(0, 0), rest |-> <<>>,
              err |-> ParseError("NoDescription", trimmed)]
        ELSE IF ~dec.ok
        THEN [ok |-> FALSE, amount |-> Dec(0, 0), rest |-> <<>>,
              err |-> ParseError("InvalidDecimal", sp.first)]
        ELSE [ok |-> TRUE, amount |-> dec.value, rest |-> sp.rest, err |-> NoError]

\* faulty variant: the description left untrimmed
parse_description_untrimmed(in) == in

parse_description(in) == trim(in)

\* Entry::from_str: the four steps in order, the first failure returned
from_str(in, dbg) ==
    LET d == parse_day(in)
        t == parse_entry_type(d.rest, dbg)
        a == parse_decimal(t.rest)
        failed(e) == [ok |-> FALSE, day |-> 0, typ |-> NoType, amount |-> Dec(0, 0),
                      description |-> <<>>, err |-> e]
    IN  IF ~d.ok THEN failed(d.err)
        ELSE IF ~t.ok THEN failed(t.err)
        ELSE IF ~a.ok THEN failed(a.err)
        ELSE [ok |-> TRUE, day |-> d.day, typ |-> t.typ, amount |-> a.amount,
              description |-> parse_description(a.rest), err |-> NoError]

(***************************************************************************)
(* writer.rs / Bookkeeper::add_operation: the serialized line.             *)
(***************************************************************************)
\* faulty variant: the symbols of the two kinds exchanged
kind_symbol_swapped(t) == IF t = "Debit" THEN "+" ELSE "-"

kind_symbol(t) == IF t = "Debit" THEN "-" ELSE "+"

format_line(e) ==
    NatToStr(e.day) \o <<" ", kind_symbol(e.typ), " ">>
        \o BigDecimal_to_string(e.amount) \o <<" ">> \o e.description

(***************************************************************************)
(* The month file's document: a TOML table with the keys take, put and     *)
(* target.  A value is absent, an integer, a string or an array; an array  *)
(* item is a string or an integer.  The file's text is a sequence of       *)
(* tokens: "key = [", one array item, "]", "key = <integer>",              *)
(* "key = <string>", blank text, and a NUL filling written by set_len.     *)
(***************************************************************************)
Absent == [tag |-> "absent", int |-> 0, text |-> <<>>, items |-> <<>>]

IntegerValue(n) == [tag |-> "integer", int |-> n, text |-> <<>>, items |-> <<>>]

StringValue(s) == [tag |-> "string", int |-> 0, text |-> s, items |-> <<>>]

ArrayValue(items) == [tag |-> "array", int |-> 0, text |-> <<>>, items |-> items]

StrItem(s) == [tag |-> "string", int |-> 0, text |-> s]

IntItem(n) == [tag |-> "integer", int |-> n, text |-> <<>>]

Tok(kind, key, n, s) == [kind |-> kind, key |-> key, int |-> n, text |-> s]

Blank == Tok("blank", "", 0, <<>>)

Nul == Tok("nul", "", 0, <<>>)

EmptyTable == [take |-> Absent, put |-> Absent, target |-> Absent]

ItemToken(it) ==
    IF it.tag = "string" THEN Tok("item_string", "", 0, it.text)
    ELSE Tok("item_integer", "", it.int, <<>>)

SerializeField(key, f) ==
    CASE f.tag = "absent"  -> <<>>
      [] f.tag = "integer" -> <<Tok("key_integer", key, f.int, <<>>)>>
      [] f.tag = "string"  -> <<Tok("key_string", key, 0, f.text)>>
      [] f.tag = "array"   ->
            <<Tok("array_open", key, 0, <<>>)>>
                \o [i \in 1..Len(f.items) |-> ItemToken(f.items[i])]
                \o <<Tok("array_close", "", 0, <<>>)>>

\* toml::ser::to_string_pretty of the table: its keys in the map's order
to_string_pretty(table) ==
    SerializeField("put", table.put) \o SerializeField("take", table.take)
        \o SerializeField("target", table.target)

NoItems == [ok |-> FALSE, items |-> <<>>, rest |-> <<>>]

\* the items of an array up to its "]"
RECURSIVE ParseItems(_, _)
ParseItems(toks, acc) ==
    IF toks = <<>> THEN NoItems
    ELSE LET t == Head(toks)
         IN  CASE t.kind = "array_close" ->
                    [ok |-> TRUE, items |-> acc, rest |-> Tail(toks)]
               [] t.kind = "item_string" ->
                    ParseItems(Tail(toks), Append(acc, StrItem(t.text)))
               [] t.kind = "item_integer" ->
                    ParseItems(Tail(toks), Append(acc, IntItem(t.int)))
               [] t.kind = "blank" -> ParseItems(Tail(toks), acc)
               [] OTHER -> NoItems

\* str::parse::<toml::Value>(): the table, or a syntax error (a key given
\* twice, an item outside an array, an unclosed array, a NUL)
RECURSIVE ParseDocument(_, _)
ParseDocument(toks, table) ==
    IF toks = <<>> THEN [ok |-> TRUE, table |-> table]
    ELSE LET t == Head(toks)
             items == ParseItems(Tail(toks), <<>>)
         IN  IF t.kind = "blank" THEN ParseDocument(Tail(toks), table)
             ELSE IF t.kind \notin {"key_integer", "key_string", "array_open"}
                     \/ table[t.key].tag # "absent"
             THEN [ok |-> FALSE, table |-> EmptyTable]
             ELSE CASE t.kind = "key_integer" ->
                         ParseDocument(Tail(toks),
                                       [table EXCEPT ![t.key] = IntegerValue(t.int)])
                    [] t.kind = "key_string" ->
                         ParseDocument(Tail(toks),
                                       [table EXCEPT ![t.key] = StringValue(t.text)])
                    [] t.kind = "array_open" ->
                         IF items.ok
                         THEN ParseDocument(items.rest,
                                  [table EXCEPT ![t.key] = ArrayValue(items.items)])
                         ELSE [ok |-> FALSE, table |-> EmptyTable]

toml_parse(text) == ParseDocument(text, EmptyTable)

\* input_text.trim().is_empty()
IsBlankText(text) == \A i \in 1..Len(text) : text[i].kind = "blank"

generate_default_toml ==
    [take |-> ArrayValue(<<>>), put |-> ArrayValue(<<>>), target |-> Absent]

\* ok = FALSE: input_text.parse().unwrap() panics
load_toml_table_or_default(input_text) ==
    IF IsBlankText(input_text)
    THEN [ok |-> TRUE, table |-> generate_default_toml]
    ELSE toml_parse(input_text)

is_array_of_strings(value) ==
    \A i \in 1..Len(value.items) : value.items[i].tag = "string"

\* faulty variant: an absent target counted as an error (map_or(false, ..))
type_check_target_required(table) ==
    LET is_take_array == table.take.tag = "array"
        is_put_array  == table.put.tag = "array"
    IN  [is_take_array |-> is_take_array,
         is_put_array |-> is_put_array,
         is_target_int_or_undefined |-> table.target.tag = "integer",
         is_take_array_of_strings |->
             is_take_array /\ is_array_of_strings(table.take),
         is_put_array_of_strings |->
             is_put_array /\ is_array_of_strings(table.put)]

type_check_toml_fields(table) ==
    LET is_take_array == table.take.tag = "array"
        is_put_array  == table.put.tag = "array"
    IN  [is_take_array |-> is_take_array,
         is_put_array |-> is_put_array,
         is_target_int_or_undefined |-> table.target.tag \in {"absent", "integer"},
         is_take_array_of_strings |->
             is_take_array /\ is_array_of_strings(table.take),
         is_put_array_of_strings |->
             is_put_array /\ is_array_of_strings(table.put)]

\* TomlTypeCheck::into_diagnosis and has_error_description: any violated
\* check is described, and a description fails the load
has_error_description(check) ==
    ~(/\ check.is_take_array
      /\ check.is_put_array
      /\ check.is_target_int_or_undefined
      /\ check.is_take_array_of_strings
      /\ check.is_put_array_of_strings)

(***************************************************************************)
(* status.rs: BookkeeperStatus::from_toml_table.  An operation is an       *)
(* Entry; Credit is a deposit (put), Debit a withdrawal (take).            *)
(***************************************************************************)
NoOperations == [ok |-> TRUE, all |-> <<>>, put |-> <<>>, take |-> <<>>]

Operation(r) ==
    [day |-> r.day, typ |-> r.typ, amount |-> r.amount, description |-> r.description]

\* faulty variant: each kind pushed onto the other kind's list
push_operation_swapped(acc, op) ==
    IF op.typ = "Debit"
    THEN [acc EXCEPT !.all = Append(@, op), !.put = Append(@, op)]
    ELSE [acc EXCEPT !.all = Append(@, op), !.take = Append(@, op)]

\* where the loop pushes a parsed operation, by its kind
push_operation(acc, op) ==
    IF op.typ = "Debit"
    THEN [acc EXCEPT !.all = Append(@, op), !.take = Append(@, op)]
    ELSE [acc EXCEPT !.all = Append(@, op), !.put = Append(@, op)]

\* the loop over take.iter().chain(put); ok = FALSE: an unwrap() panicked
RECURSIVE collect_operations(_, _, _)
collect_operations(items, acc, dbg) ==
    IF items = <<>> \/ ~acc.ok THEN acc
    ELSE LET parsed == from_str(Head(items).text, dbg)
         IN  IF Head(items).tag # "string" \/ ~parsed.ok
             THEN [acc EXCEPT !.ok = FALSE]
             ELSE collect_operations(Tail(items),
                                     push_operation(acc, Operation(parsed)), dbg)

\* Iterator::sum of the amounts, from BigDecimal's zero
RECURSIVE sum_amounts(_)
sum_amounts(ops) ==
    IF ops = <<>> THEN Dec(0, 0)
    ELSE DecAdd(sum_amounts(SubSeq(ops, 1, Len(ops) - 1)), ops[Len(ops)].amount)

NoStatus ==
    [take_total |-> Dec(0, 0), put_total |-> Dec(0, 0), all_operations |-> <<>>,
     put_operations |-> <<>>, take_operations |-> <<>>]

from_toml_table(table, dbg) ==
    LET ops == collect_operations(table.take.items \o table.put.items,
                                  NoOperations, dbg)
    IN  IF ~ops.ok THEN [ok |-> FALSE, status |-> NoStatus]
        ELSE [ok |-> TRUE,
              status |-> [take_total |-> sum_amounts(ops.take),
                          put_total |-> sum_amounts(ops.put),
                          all_operations |-> ops.all,
                          put_operations |-> ops.put,
                          take_operations |-> ops.take]]

(***************************************************************************)
(* bookkeeper/mod.rs: the Bookkeeper, the file it writes, main's exits.    *)
(***************************************************************************)
NoBookkeeper ==
    [table |-> EmptyTable, cursor |-> 0, status |-> NoStatus, file_contents |-> <<>>]

NoFile == [exists |-> FALSE, content |-> <<>>]

NoOutcome == [result |-> "none", error |-> "", stderr |-> "", exit_code |-> 0,
              created |-> FALSE]

\* the exit code main gives an error
ErrorExitCode == 127

\* load_from_path returned Ok
Loaded(created) ==
    [result |-> "ok", error |-> "", stderr |-> "", exit_code |-> 0,
     created |-> created]

\* main: exec() returned Err
ReportedError(error, created) ==
    [result |-> "error", error |-> error, stderr |-> "Error: <message>",
     exit_code |-> ErrorExitCode, created |-> created]

\* an unwrap() on None or Err: the thread panics, the process exits with 101
Panicked(created) ==
    [result |-> "panic", error |-> "", stderr |-> "thread 'main' panicked",
     exit_code |-> 101, created |-> created]

NoOperation ==
    [day |-> 0, typ |-> NoType, amount |-> Dec(0, 0), description |-> <<>>]

NoLast == [valid |-> FALSE, put |-> <<>>, take |-> <<>>, operation |-> NoOperation]

\* OperationType::name_and_symbol: the key of the list an operation goes to
array_key(t) == IF t = "Debit" THEN "take" ELSE "put"

\* File::write at the cursor
write_at(content, pos, data) ==
    SubSeq(content, 1, pos) \o data
        \o SubSeq(content, pos + Len(data) + 1, Len(content))

\* File::set_len: cut, or fill with NULs
set_len(content, n) ==
    IF n <= Len(content) THEN SubSeq(content, 1, n)
    ELSE content \o [i \in 1..(n - Len(content)) |-> Nul]

\* faulty variant: the line inserted at the head of the list
push_line_front(table, key, line) ==
    [table EXCEPT ![key].items = <<StrItem(line)>> \o @]

push_line(table, key, line) ==
    [table EXCEPT ![key].items = Append(@, StrItem(line))]

(***************************************************************************)
(* The month file as the operating system holds it: bytes.  A byte of a    *)
(* document is named by the token it belongs to and its place in it.       *)
(***************************************************************************)
RECURSIVE Utf8Len(_)
Utf8Len(s) == IF s = <<>> THEN 0 ELSE ByteLen(Head(s)) + Utf8Len(Tail(s))

KeyLen(key) == CASE key = "put" -> 3 [] key = "take" -> 4 [] OTHER -> 6

\* the bytes to_string_pretty writes for a token: `key = [`, an indented
\* quoted item with its comma and newline, `]` and newline, `key = value`
Width(t) ==
    CASE t.kind = "array_open"   -> KeyLen(t.key) + 4
      [] t.kind = "array_close"  -> 2
      [] t.kind = "item_string"  -> Utf8Len(t.text) + 8
      [] t.kind = "item_integer" -> Len(NatToStr(t.int)) + 6
      [] t.kind = "key_integer"  -> KeyLen(t.key) + Len(NatToStr(t.int)) + 4
      [] t.kind = "key_string"   -> KeyLen(t.key) + Utf8Len(t.text) + 6
      [] OTHER                   -> 1

Byte(t, k) == [tok |-> t, at |-> k]

NulByte == Byte(Nul, 1)

\* a byte range that is no whole token
Torn == Tok("torn", "", 0, <<>>)

\* String::as_bytes of a document
RECURSIVE Bytes(_)
Bytes(toks) ==
    IF toks = <<>> THEN <<>>
    ELSE [k \in 1..Width(Head(toks)) |-> Byte(Head(toks), k)] \o Bytes(Tail(toks))

\* read_to_string: the tokens of the bytes read
RECURSIVE read_to_string(_)
read_to_string(bytes) ==
    IF bytes = <<>> THEN <<>>
    ELSE LET t == Head(bytes).tok
             w == Width(t)
         IN  IF /\ w <= Len(bytes)
                /\ \A k \in 1..w : bytes[k] = Byte(t, k)
             THEN <<t>> \o read_to_string(SubSeq(bytes, w + 1, Len(bytes)))
             ELSE <<Torn>> \o read_to_string(Tail(bytes))

\* faulty variant: a length past the end of the file leaves it as it is
set_len_cut_only(bytes, n) ==
    IF n <= Len(bytes) THEN SubSeq(bytes, 1, n) ELSE bytes

\* File::set_len on the bytes: cut, or fill with NULs
set_len_bytes(bytes, n) ==
    IF n <= Len(bytes) THEN SubSeq(bytes, 1, n)
    ELSE bytes \o [i \in 1..(n - Len(bytes)) |-> NulByte]

\* the invocations that run concurrently
Procs == {"A", "B"}

NoInvocations == [p \in Procs |-> [pc |-> "start", bk |-> NoBookkeeper]]

(***************************************************************************)
(* The inputs: lines for Entry::from_str and entries for the serializer.   *)
(***************************************************************************)
Strs(A, n) == UNION {[1..k -> A] : k \in 0..n}

HeadAlphabet == {" ", "\t", "+", "-", "0", "1", "a", WideChar}
BodyAlphabet == {" ", "\t", "-", "1", ".", "a"}
DescAlphabet == {" ", "a", "+"}

\* what follows an enumerated beginning
Tails == { <<>>, <<"+", " ", "1", " ", "a">>, <<" ", "-", " ", "1", " ", "a">>,
           <<"1", " ", "a">>, <<" ", "1", ".", "5", " ", "a", " ", "b">> }

\* what precedes an enumerated body: a day token and a type symbol
Heads == { <<"1", " ", "+">>, <<"0", " ", "-">>, <<" ", "1", "2", " ", "+">>,
           <<"2", "5", "5", " ", "-">>, <<"2", "5", "6", " ", "+">> }

Lines == {h \o t : h \in Strs(HeadAlphabet, MaxHead), t \in Tails}
            \cup {h \o b : h \in Heads, b \in Strs(BodyAlphabet, MaxBody)}

Days == {0, 1, 12, U8Max}
Unscaled == {-5, 0, 5, 50, 105}
Amounts == {Dec(u, sc) : u \in Unscaled, sc \in 0..MaxScale}

NoEntry == [day |-> 0, typ |-> NoType, amount |-> Dec(0, 0), description |-> <<>>]

\* Entry::new validates nothing: any day, kind, amount and description
Entries == [day : Days, typ : {"Credit", "Debit"}, amount : Amounts,
            description : Strs(DescAlphabet, MaxDesc)]

(***************************************************************************)
(* SpecParse: one line through Entry::from_str, step by step; the line is  *)
(* an enumerated one or the serialized form of an enumerated Entry.  Or    *)
(* one text through parse_decimal alone.                                   *)
(***************************************************************************)
ParseInit ==
    /\ debug \in BOOLEAN
    /\ \/ entry = NoEntry /\ input \in Lines /\ pc = "day" /\ restType = <<>>
       \/ entry \in Entries /\ input = <<>> /\ pc = "serialize" /\ restType = <<>>
       \/ \* parse_decimal called on its own, as the module's tests call it
          /\ entry = NoEntry /\ input = <<>> /\ pc = "decimal_only"
          /\ restType \in Strs(BodyAlphabet, MaxBody)
    /\ restDay = <<>> /\ restDec = <<>>
    /\ day = 0 /\ typ = NoType /\ amount = Dec(0, 0) /\ description = <<>>
    /\ err = NoError
    /\ file = NoFile /\ phase = "off" /\ bk = NoBookkeeper /\ outcome = NoOutcome
    /\ loads = 0 /\ adds = 0 /\ last = NoLast
    /\ disk = <<>> /\ inv = NoInvocations /\ history = <<>>

\* Writer::write_entry: writeln! of the formatted entry
WriteEntry ==
    /\ pc = "serialize"
    /\ input' = format_line(entry) \o <<"\n">>
    /\ pc' = "day"
    /\ UNCHANGED <<debug, entry, restDay, restType, restDec, day, typ, amount,
                   description, err>>
    /\ UNCHANGED <<storeVars, raceVars>>

\* Bookkeeper::add_operation: format! of the line pushed onto the table
FormatLine ==
    /\ pc = "serialize"
    /\ input' = format_line(entry)
    /\ pc' = "day"
    /\ UNCHANGED <<debug, entry, restDay, restType, restDec, day, typ, amount,
                   description, err>>
    /\ UNCHANGED <<storeVars, raceVars>>

StepDay ==
    /\ pc = "day"
    /\ LET r == parse_day(input)
       IN  /\ day' = r.day
           /\ restDay' = r.rest
           /\ err' = r.err
           /\ pc' = IF r.ok THEN "type" ELSE "failed"
    /\ UNCHANGED <<debug, entry, input, restType, restDec, typ, amount, description>>
    /\ UNCHANGED <<storeVars, raceVars>>

StepType ==
    /\ pc = "type"
    /\ LET r == parse_entry_type(restDay, debug)
       IN  /\ typ' = r.typ
           /\ restType' = r.rest
           /\ err' = r.err
           /\ pc' = IF r.ok THEN "decimal" ELSE "failed"
    /\ UNCHANGED <<debug, entry, input, restDay, restDec, day, amount, description>>
    /\ UNCHANGED <<storeVars, raceVars>>

StepDecimal ==
    /\ pc \in {"decimal", "decimal_only"}
    /\ LET r == parse_decimal(restType)
       IN  /\ amount' = r.amount
           /\ restDec' = r.rest
           /\ err' = r.err
           /\ pc' = IF ~r.ok THEN "failed"
                    ELSE IF pc = "decimal" THEN "description" ELSE "returned"
    /\ UNCHANGED <<debug, entry, input, restDay, restType, day, typ, description>>
    /\ UNCHANGED <<storeVars, raceVars>>

StepDescription ==
    /\ pc = "description"
    /\ description' = parse_description(restDec)
    /\ pc' = "done"
    /\ UNCHANGED <<debug, entry, input, restDay, restType, restDec, day, typ,
                   amount, err>>
    /\ UNCHANGED <<storeVars, raceVars>>

ParseNext ==
    \/ WriteEntry
    \/ FormatLine
    \/ StepDay
    \/ StepType
    \/ StepDecimal
    \/ StepDescription

SpecParse == ParseInit /\ [][ParseNext]_vars

(***************************************************************************)
(* Spec: the month file through a sequence of invocations, each loading    *)
(* the store and then appending operations or exiting.                     *)
(***************************************************************************)
Line1 == <<"1", " ", "+", " ", "5", " ", "a">>
Line2 == <<"2", " ", "-", " ", "1", ".", "5", " ", "b">>
Line3 == <<"3", " ", "x">>

LinePool == {Line1, Line2, Line3}

StringArrays ==
    UNION {{ArrayValue([i \in 1..k |-> StrItem(f[i])]) : f \in [1..k -> LinePool]} :
              k \in 0..MaxLines}

ListValues ==
    StringArrays \cup {Absent, IntegerValue(1), ArrayValue(<<StrItem(Line1), IntItem(1)>>)}

TargetValues == {Absent, IntegerValue(100), StringValue(<<"x">>)}

InitTables == [take : ListValues, put : ListValues, target : TargetValues]

\* the document of tests::reads_income_and_outcome_total_from_file_correctly
TestTable ==
    [put |-> ArrayValue(<<
        StrItem(<<"2", "2", " ", "+", " ", "2", "0", "0", ".", "5", "0", " ",
                  "P", "a", "y", "m", "e", "n", "t">>),
        StrItem(<<"2", "2", " ", "+", " ", "3", "0", "0", ".", "2", "5", " ",
                  "A", "n", "o", "t", "h", "e", "r", " ",
                  "P", "a", "y", "m", "e", "n", "t">>) >>),
     take |-> ArrayValue(<<
        StrItem(<<"2", "3", " ", "-", " ", "1", "0", ".", "2", "5", " ",
                  "L", "u", "n", "c", "h">>),
        StrItem(<<"2", "3", " ", "-", " ", "1", "0", ".", "2", "7", " ",
                  "D", "i", "n", "n", "e", "r">>),
        StrItem(<<"2", "4", " ", "-", " ", "4", "0", "0", ".", "0", "0", " ",
                  "k", "i", "n", "d", "l", "e", "-", "p", "a", "r", "a", "-",
                  "b", "i", "s", "h">>) >>),
     target |-> Absent]

InitFiles ==
    {NoFile, [exists |-> TRUE, content |-> <<>>], [exists |-> TRUE, content |-> <<Blank>>],
     [exists |-> TRUE, content |-> to_string_pretty(TestTable) \o <<Blank>>]}
        \cup {[exists |-> TRUE, content |-> to_string_pretty(t)] : t \in InitTables}

\* the operations the take and put commands build: today's day, the
\* command's kind, the amount and the description given on the command line
Ops ==
    { [day |-> 3, typ |-> "Credit", amount |-> Dec(5, 0), description |-> <<"a">>],
      [day |-> 3, typ |-> "Debit", amount |-> Dec(150, 2), description |-> <<"b", " ", "c">>],
      [day |-> 4, typ |-> "Debit", amount |-> Dec(2, 0), description |-> <<>>] }

Init ==
    /\ debug \in BOOLEAN
    /\ entry = NoEntry /\ input = <<>> /\ pc = "off"
    /\ restDay = <<>> /\ restType = <<>> /\ restDec = <<>>
    /\ day = 0 /\ typ = NoType /\ amount = Dec(0, 0) /\ description = <<>>
    /\ err = NoError
    /\ file \in InitFiles
    /\ phase = "idle" /\ bk = NoBookkeeper /\ outcome = NoOutcome
    /\ loads = 0 /\ adds = 0 /\ last = NoLast
    /\ disk = <<>> /\ inv = NoInvocations /\ history = <<>>

\* Bookkeeper::load_from_path, and main's report when it fails
load_from_path ==
    /\ phase \in {"idle", "failed"}
    /\ loads < MaxLoads
    /\ loads' = loads + 1
    /\ LET created       == ~file.exists
           file_contents == file.content
           parsed        == load_toml_table_or_default(file_contents)
           diagnosis     == type_check_toml_fields(parsed.table)
           status        == from_toml_table(parsed.table, debug)
       IN  /\ file' = [exists |-> TRUE, content |-> file_contents]
           /\ IF ~parsed.ok
              THEN phase' = "failed" /\ bk' = NoBookkeeper
                   /\ outcome' = Panicked(created)
              ELSE IF has_error_description(diagnosis)
              THEN phase' = "failed" /\ bk' = NoBookkeeper
                   /\ outcome' = ReportedError("InvalidTomlTypes", created)
              ELSE IF ~status.ok
              THEN phase' = "failed" /\ bk' = NoBookkeeper
                   /\ outcome' = Panicked(created)
              ELSE phase' = "loaded"
                   /\ bk' = [table |-> parsed.table, cursor |-> 0,
                             status |-> status.status,
                             file_contents |-> file_contents]
                   /\ outcome' = Loaded(created)
    /\ UNCHANGED <<parserVars, raceVars, adds, last>>

\* Bookkeeper::add_operation, truncate_and_close_file included
add_operation(operation) ==
    /\ phase = "loaded"
    /\ adds < MaxAdds
    /\ adds' = adds + 1
    /\ LET line        == format_line(operation)
           table       == push_line(bk.table, array_key(operation.typ), line)
           toml        == to_string_pretty(table)
           written_len == bk.cursor + Len(toml)
       IN  /\ file' = [file EXCEPT !.content =
                          set_len(write_at(file.content, bk.cursor, toml), written_len)]
           /\ bk' = [bk EXCEPT !.table = table, !.cursor = written_len]
           /\ last' = IF bk.cursor = 0
                      THEN [valid |-> TRUE, put |-> bk.table.put.items,
                            take |-> bk.table.take.items,
                            operation |-> operation]
                      ELSE NoLast
    /\ UNCHANGED <<parserVars, raceVars, phase, outcome, loads>>

AddOperation == \E operation \in Ops : add_operation(operation)

\* the invocation ends: exec() returned Ok
Exit ==
    /\ phase = "loaded"
    /\ phase' = "idle"
    /\ bk' = NoBookkeeper
    /\ UNCHANGED <<parserVars, raceVars, file, outcome, loads, adds, last>>

Next ==
    \/ load_from_path
    \/ AddOperation
    \/ Exit

Spec == Init /\ [][Next]_vars

\* SpecFresh: the same invocations, on a store that starts empty (no file,
\* an empty file, or blank text)
InitFresh == Init /\ IsBlankText(file.content)

SpecFresh == InitFresh /\ [][Next]_vars

(***************************************************************************)
(* SpecRace: two invocations on one month file, with no locking.  Each     *)
(* runs load_from_path, then add_operation's write! and its                *)
(* truncate_and_close_file, on its own file handle and cursor.             *)
(***************************************************************************)
RaceTables ==
    { generate_default_toml,
      [put |-> ArrayValue(<<StrItem(Line1)>>), take |-> ArrayValue(<<StrItem(Line2)>>),
       target |-> IntegerValue(100)],
      [put |-> ArrayValue(<<StrItem(Line3)>>), take |-> ArrayValue(<<>>),
       target |-> Absent] }

RaceFiles == {<<>>} \cup {Bytes(to_string_pretty(t)) : t \in RaceTables}

InitRace ==
    /\ debug \in BOOLEAN
    /\ entry = NoEntry /\ input = <<>> /\ pc = "off"
    /\ restDay = <<>> /\ restType = <<>> /\ restDec = <<>>
    /\ day = 0 /\ typ = NoType /\ amount = Dec(0, 0) /\ description = <<>>
    /\ err = NoError
    /\ file = NoFile /\ phase = "off" /\ bk = NoBookkeeper /\ outcome = NoOutcome
    /\ loads = 0 /\ adds = 0 /\ last = NoLast
    /\ disk \in RaceFiles
    /\ inv = NoInvocations
    /\ history = <<>>

\* Bookkeeper::load_from_path of invocation p: read, rewind, parse, check
concurrent_load_from_path(p) ==
    /\ inv[p].pc = "start"
    /\ LET file_contents == read_to_string(disk)
           parsed        == load_toml_table_or_default(file_contents)
           diagnosis     == type_check_toml_fields(parsed.table)
           status        == from_toml_table(parsed.table, debug)
       IN  IF ~parsed.ok \/ has_error_description(diagnosis) \/ ~status.ok
           THEN inv' = [inv EXCEPT ![p].pc = "failed"]
           ELSE inv' = [inv EXCEPT ![p] =
                           [pc |-> "loaded",
                            bk |-> [table |-> parsed.table, cursor |-> 0,
                                    status |-> status.status,
                                    file_contents |-> file_contents]]]
    /\ UNCHANGED <<parserVars, storeVars, disk, history>>

\* add_operation of invocation p up to its write!: the document goes to the
\* file at p's cursor
concurrent_write(p, operation) ==
    /\ inv[p].pc = "loaded"
    /\ LET line  == format_line(operation)
           table == push_line(inv[p].bk.table, array_key(operation.typ), line)
           toml  == Bytes(to_string_pretty(table))
       IN  /\ disk' = write_at(disk, inv[p].bk.cursor, toml)
           /\ inv' = [inv EXCEPT ![p].pc = "written",
                                 ![p].bk.table = table,
                                 ![p].bk.cursor = @ + Len(toml)]
    /\ history' = Append(history, [who |-> p, step |-> "write"])
    /\ UNCHANGED <<parserVars, storeVars>>

\* truncate_and_close_file of invocation p: set_len(stream_position)
truncate_and_close_file(p) ==
    /\ inv[p].pc = "written"
    /\ disk' = set_len_bytes(disk, inv[p].bk.cursor)
    /\ inv' = [inv EXCEPT ![p].pc = "done"]
    /\ history' = Append(history, [who |-> p, step |-> "truncate"])
    /\ UNCHANGED <<parserVars, storeVars>>

ConcurrentLoad == \E p \in Procs : concurrent_load_from_path(p)

ConcurrentWrite == \E p \in Procs : \E operation \in Ops : concurrent_write(p, operation)

ConcurrentTruncate == \E p \in Procs : truncate_and_close_file(p)

RaceNext ==
    \/ ConcurrentLoad
    \/ ConcurrentWrite
    \/ ConcurrentTruncate

SpecRace == InitRace /\ [][RaceNext]_vars

(***************************************************************************)
(* Properties of the parser and the serializer, under SpecParse.           *)
(***************************************************************************)
Serialized == entry # NoEntry /\ pc # "serialize"

Finished == pc \in {"done", "failed"}

\* parse_day has returned Ok
DayParsed ==
    \/ pc \in {"type", "decimal", "description", "done"}
    \/ pc = "failed" /\ err.kind \notin {"Malformed", "InvalidDay"}

\* parse_decimal has returned
DecimalActed ==
    \/ pc \in {"description", "done", "returned"}
    \/ pc = "failed" /\ err.kind \in {"NoDescription", "InvalidDecimal"}

NoSurroundingWhitespace(s) ==
    s # <<>> /\ ~IsWhitespace(s[1]) /\ ~IsWhitespace(s[Len(s)])

RoundTrips ==
    /\ pc = "done"
    /\ day = entry.day
    /\ typ = entry.typ
    /\ DecEq(amount, entry.amount)
    /\ description = entry.description

\* C1 as stated: every Entry whose description is non-empty after trimming
\* is parsed back, equal, from its serialized line.
C1_RoundTripAnyDescription ==
    (Serialized /\ Finished /\ trim(entry.description) # <<>>) => RoundTrips

\* C1 (amended): every Entry (any day, Credit or Debit, any amount) whose
\* description is non-empty and has no leading or trailing whitespace is
\* parsed back from its serialized line, equal in day, kind, amount and
\* description.
C1_RoundTrip ==
    (Serialized /\ Finished /\ NoSurroundingWhitespace(entry.description))
        => RoundTrips

C1_Witness ==
    /\ Serialized /\ pc = "done"
    /\ NoSurroundingWhitespace(entry.description)
    /\ Len(entry.description) = 3 /\ entry.description[2] = " "
    /\ entry.amount = Dec(-5, 2) /\ entry.day = U8Max /\ entry.typ = "Debit"

\* C5: every successfully parsed Entry has a non-negative amount.
C5_AmountNonNegative == pc = "done" => amount.unscaled >= 0

\* the day token: the text of the trimmed line before its first space
DayToken == split_once(trim(input), " ")

\* an optional '+' and then decimal digits only
IsNumeral(tok) ==
    /\ tok # <<>>
    /\ \A i \in 1..Len(tok) : tok[i] \in Digits \/ (i = 1 /\ tok[i] = "+")
    /\ \E i \in 1..Len(tok) : tok[i] \in Digits

NonNumericDayRejected ==
    (pc \notin {"serialize", "day"} /\ DayToken.found /\ ~IsNumeral(DayToken.first))
        => (pc = "failed" /\ err = ParseError("InvalidDay", DayToken.first))

\* C6 as stated: every successfully parsed Entry has day >= 1, and a
\* non-numeric day token fails with InvalidDay carrying that token.
C6_DayPositive == (pc = "done" => day >= 1) /\ NonNumericDayRejected

\* C6 (amended): every successfully parsed Entry has a day in 0..255 (a day
\* of 0 is accepted), and a non-numeric day token fails with InvalidDay
\* carrying that token.
C6_DayIsU8 == (pc = "done" => day \in 0..U8Max) /\ NonNumericDayRejected

C6_Witness == pc = "done" /\ day = 0 /\ entry = NoEntry

RECURSIVE AllBlank(_)
AllBlank(s) == s = <<>> \/ (IsWhitespace(Head(s)) /\ AllBlank(Tail(s)))

\* the text handed to parse_decimal, leading whitespace removed
Remaining == trim_start(restType)

\* the text of Remaining before its first space (all of it when it has none)
RECURSIVE UpToSpace(_)
UpToSpace(s) ==
    IF s = <<>> \/ Head(s) = " " THEN <<>> ELSE <<Head(s)>> \o UpToSpace(Tail(s))

AmountToken == UpToSpace(Remaining)

\* no space follows the amount token, or only whitespace follows that space
DescriptionMissing ==
    \/ Len(AmountToken) = Len(Remaining)
    \/ AllBlank(SubSeq(Remaining, Len(AmountToken) + 2, Len(Remaining)))

\* C7: a successfully parsed Entry has a non-empty description without
\* leading or trailing whitespace; a missing description fails with
\* NoDescription carrying the remaining text, its leading whitespace
\* removed and its trailing whitespace kept.
C7_Description ==
    /\ pc = "done" => NoSurroundingWhitespace(description)
    /\ (DecimalActed /\ DescriptionMissing)
          => (pc = "failed" /\ err = ParseError("NoDescription", Remaining))

C7_Witness ==
    /\ DecimalActed /\ DescriptionMissing /\ pc = "failed"
    /\ Remaining # restType
    /\ Remaining # <<>> /\ IsWhitespace(Remaining[Len(Remaining)])
    /\ err = ParseError("NoDescription", Remaining)

\* C8: parse_decimal returns InvalidDecimal(token) exactly when a non-blank
\* description follows the first space and the token before that space is
\* not a valid decimal; a missing description gives NoDescription, also
\* when the amount token is not a valid decimal.
C8_OrderOfChecks ==
    DecimalActed =>
        /\ err.kind = "InvalidDecimal"
              <=> (~DescriptionMissing /\ ~BigDecimal_from_str(AmountToken).ok)
        /\ err.kind = "InvalidDecimal" => err.text = AmountToken
        /\ DescriptionMissing => err.kind = "NoDescription"

C8_Witness ==
    /\ DecimalActed /\ DescriptionMissing /\ entry = NoEntry
    /\ AmountToken # <<>> /\ ~BigDecimal_from_str(AmountToken).ok
    /\ err.kind = "NoDescription"

\* C10: whenever day parsing succeeds, the remainder handed to the
\* type-symbol step is non-empty and has no leading whitespace, and the
\* step never fails on a whitespace character (nor on its assertions).
C10_TypePrecondition ==
    DayParsed =>
        /\ restDay # <<>> /\ restDay = trim_start(restDay)
        /\ err # Panic
        /\ err.kind = "InvalidEntryType" => ~IsWhitespace(err.text[1])

(***************************************************************************)
(* Properties of the store and the aggregation, under Spec.                *)
(***************************************************************************)
\* load_from_path has just returned: the file is the text it read
JustLoaded == phase = "failed" \/ (phase = "loaded" /\ bk.cursor = 0)

\* the entries of the document the Bookkeeper was loaded from, take first
LoadedLines ==
    LET table == load_toml_table_or_default(bk.file_contents).table
    IN  table.take.items \o table.put.items

LoadedEntries == [i \in 1..Len(LoadedLines) |-> from_str(LoadedLines[i].text, debug)]

Max(S) == IF S = {} THEN 0 ELSE CHOOSE m \in S : \A n \in S : n <= m

\* the number of decimal places that holds every amount and total exactly
Places(es) ==
    Max({es[i].amount.scale : i \in 1..Len(es)}
            \cup {bk.status.put_total.scale, bk.status.take_total.scale})

InUnits(d, places) == d.unscaled * Pow10(places - d.scale)

\* the sum, in units of 10^-places, of the amounts of the entries of kind k
RECURSIVE ExactSum(_, _, _)
ExactSum(es, k, places) ==
    IF es = <<>> THEN 0
    ELSE ExactSum(Tail(es), k, places)
           + (IF Head(es).typ = k THEN InUnits(Head(es).amount, places) ELSE 0)

\* C2: for every store whose lines all parse, put_total is the exact sum
\* of the amounts of all Credit entries and take_total the exact sum of the
\* amounts of all Debit entries (0 when there are none, duplicates counted).
C2_Totals ==
    phase = "loaded" =>
        LET es     == LoadedEntries
            places == Places(es)
        IN  /\ InUnits(bk.status.put_total, places) = ExactSum(es, "Credit", places)
            /\ InUnits(bk.status.take_total, places) = ExactSum(es, "Debit", places)

C2_Witness ==
    /\ phase = "loaded"
    /\ bk.table = TestTable
    /\ DecEq(bk.status.put_total, Dec(50075, 2))
    /\ DecEq(bk.status.take_total, Dec(42052, 2))

ExpectedPut ==
    IF last.operation.typ = "Credit"
    THEN last.put \o <<StrItem(format_line(last.operation))>>
    ELSE last.put

ExpectedTake ==
    IF last.operation.typ = "Debit"
    THEN last.take \o <<StrItem(format_line(last.operation))>>
    ELSE last.take

\* C3: after a load, one append and a load of the same file, the list of
\* the entry's kind is the previous list followed by the entry's serialized
\* line, and the other list is unchanged.
C3_AppendReload ==
    last.valid =>
        LET doc == load_toml_table_or_default(file.content)
        IN  /\ doc.ok
            /\ doc.table.put.items = ExpectedPut
            /\ doc.table.take.items = ExpectedTake
            /\ (phase = "loaded" /\ bk.cursor = 0) =>
                  /\ bk.table.put.items = ExpectedPut
                  /\ bk.table.take.items = ExpectedTake

C3_Witness ==
    /\ last.valid /\ phase = "loaded" /\ bk.cursor = 0
    /\ last.operation.typ = "Credit"
    /\ Len(last.put) >= 1 /\ Len(last.take) >= 1
    /\ Len(bk.table.put.items) = Len(last.put) + 1

IsTextSequence(value) ==
    value.tag = "array" /\ \A i \in 1..Len(value.items) : value.items[i].tag = "string"

Malformed(table) ==
    \/ ~IsTextSequence(table.take)
    \/ ~IsTextSequence(table.put)
    \/ table.target.tag \notin {"absent", "integer"}

\* C4: the load of a non-empty document fails with the validation error
\* exactly when take or put is absent or not a sequence of text values or
\* target is present and not an integer, whatever its lines are; an empty
\* or missing file loads as a store with both sequences empty.
C4_Validation ==
    JustLoaded =>
        LET doc == toml_parse(file.content)
        IN  /\ (~IsBlankText(file.content) /\ doc.ok) =>
                  (outcome.error = "InvalidTomlTypes" <=> Malformed(doc.table))
            /\ outcome.error = "InvalidTomlTypes" =>
                  (phase = "failed" /\ outcome.result = "error")
            /\ (IsBlankText(file.content) \/ outcome.created) =>
                  /\ phase = "loaded"
                  /\ bk.table.take = ArrayValue(<<>>)
                  /\ bk.table.put = ArrayValue(<<>>)

C4_Witness ==
    /\ phase = "failed" /\ outcome.error = "InvalidTomlTypes"
    /\ toml_parse(file.content).table.put = ArrayValue(<<StrItem(Line3)>>)
    /\ toml_parse(file.content).table.take.tag = "absent"
    /\ toml_parse(file.content).table.target.tag = "absent"

\* a line of the document the load read does not parse
SomeLineUnparsable ==
    LET doc == load_toml_table_or_default(file.content)
        lines == doc.table.take.items \o doc.table.put.items
    IN  /\ doc.ok /\ ~Malformed(doc.table)
        /\ \E i \in 1..Len(lines) : ~from_str(lines[i].text, debug).ok

\* C9: when a line of take or put fails to parse, the load produces no
\* Status, and the failure is returned as an error that the command reports
\* as "Error: <message>" with the non-zero exit code of every other error.
C9_ParseErrorReported ==
    (JustLoaded /\ SomeLineUnparsable) =>
        /\ phase = "failed" /\ bk = NoBookkeeper
        /\ outcome.result = "error"
        /\ outcome.stderr = "Error: <message>"
        /\ outcome.exit_code = ErrorExitCode

\* C12: after one or more add_operation calls on one loaded Bookkeeper the
\* file content is exactly the serialization of its in-memory table, with
\* nothing of an earlier document before or after it.
C12_FileIsDocument ==
    (phase = "loaded" /\ bk.cursor > 0) =>
        file.content = to_string_pretty(bk.table)

ParsedLines(items) == [i \in 1..Len(items) |-> from_str(items[i].text, debug)]

AllOfKind(items, k) ==
    \A i \in 1..Len(items) :
        from_str(items[i].text, debug).ok /\ from_str(items[i].text, debug).typ = k

OperationsOf(items) == [i \in 1..Len(items) |-> Operation(ParsedLines(items)[i])]

\* C13: from an empty store, after any appends, every line of put parses as
\* a Credit entry and every line of take as a Debit entry, so the store
\* always reloads, and the Status lists of a load are the parsed take and
\* put lists in file order.
C13_StoredLinesWellFormed ==
    /\ phase # "failed"
    /\ phase = "loaded" =>
          /\ AllOfKind(bk.table.put.items, "Credit")
          /\ AllOfKind(bk.table.take.items, "Debit")
    /\ (phase = "loaded" /\ bk.cursor = 0) =>
          /\ bk.status.put_operations = OperationsOf(bk.table.put.items)
          /\ bk.status.take_operations = OperationsOf(bk.table.take.items)

(***************************************************************************)
(* Properties of concurrent invocations, under SpecRace.                   *)
(***************************************************************************)
\* both invocations have written and truncated
BothDone == \A p \in Procs : inv[p].pc = "done"

\* both invocations loaded the same month file
SameLoad == \A p, q \in Procs : inv[p].bk.file_contents = inv[q].bk.file_contents

Step(i) == history[i]

Position(p, step) ==
    CHOOSE i \in 1..Len(history) : Step(i) = [who |-> p, step |-> step]

LastWriter ==
    CHOOSE p \in Procs :
        \A q \in Procs : Position(q, "write") <= Position(p, "write")

LastTruncator ==
    CHOOSE p \in Procs :
        \A q \in Procs : Position(q, "truncate") <= Position(p, "truncate")

OtherWriter == CHOOSE p \in Procs : p # LastWriter

\* the document invocation p serialized and wrote
Document(p) == Bytes(to_string_pretty(inv[p].bk.table))

\* the other invocation truncated before the last write
TruncatedBeforeLastWrite ==
    Position(OtherWriter, "truncate") < Position(LastWriter, "write")

Shorter ==
    IF Len(Document("A")) <= Len(Document("B"))
    THEN Len(Document("A")) ELSE Len(Document("B"))

\* C11 as stated: in every interleaving the final file content is exactly
\* the complete document of the invocation that wrote last.
C11_LastWriterWins ==
    (BothDone /\ SameLoad) => disk = Document(LastWriter)

\* C11: when two invocations load the same month file and each appends an
\* entry, the final file is exactly the last writer's complete document if
\* the other invocation truncated before the last write; in the other
\* interleavings the file has the length of the document of the invocation
\* that truncated last, holds the last writer's bytes up to the length of
\* the shorter document, and NUL bytes after that.
C11_LastWriterBytes ==
    (BothDone /\ SameLoad) =>
        IF TruncatedBeforeLastWrite
        THEN disk = Document(LastWriter)
        ELSE /\ Len(disk) = Len(Document(LastTruncator))
             /\ \A i \in 1..Len(disk) :
                    disk[i] = IF i <= Shorter THEN Document(LastWriter)[i]
                              ELSE NulByte

\* both finished after loading the same file, the truncations followed both
\* writes, and the file ends in NUL bytes past the shorter document
C11_Witness ==
    /\ BothDone /\ SameLoad
    /\ ~TruncatedBeforeLastWrite
    /\ Len(disk) > Shorter
    /\ disk[Len(disk)] = NulByte

====
